---- MODULE Spec2Model ----
(***************************************************************************)
(* Client-side session layer of the Goalstone frontend:                    *)
(*   - services/api.js   : token helpers, axios request/response           *)
(*                         interceptors, authAPI                           *)
(*   - hooks/useAuth.js  : AuthProvider (user, loading, isAuthenticated),  *)
(*                         initAuth, login, register, logout               *)
(* One action is one event-loop task: a user call into the hook, or the    *)
(* arrival of one response together with the whole promise chain it        *)
(* settles (response interceptor, authAPI wrapper, hook continuation).     *)
(***************************************************************************)
EXTENDS Integers, Sequences, FiniteSets, TLC

\* ---------------------------------------------------------------- bounds
MaxReq == 3        \* requests issued during one page lifetime
MaxTokens == 2     \* tokens the server issues over the whole run
MaxUsers == 2      \* distinct user records the server can return
MaxChat == 2       \* messages the user sends to the chat widget

\* ------------------------------------------------------------- constants
NoToken == 0       \* localStorage.getItem('token') === null
NoUser == 0        \* null user / absent 'user' key
Users == 1..MaxUsers
UNAUTHORIZED == 401
SERVER_ERROR == 500
OK == 200
NO_RESPONSE == 0   \* connectivity failure: error.response is undefined

Statuses == {OK, UNAUTHORIZED, SERVER_ERROR, NO_RESPONSE}

\* URLs as sequences of path segments
LoginUrl == <<"auth", "login">>
RegisterUrl == <<"auth", "register">>
MeUrl == <<"auth", "me">>
CareerUrl == <<"agents", "career">>
CareerHealthUrl == <<"agents", "career", "health">>
RoadmapProgressUrl == <<"career", "roadmap", "progress">>
ComponentUrls == {CareerUrl, CareerHealthUrl, RoadmapProgressUrl}
MetricsUrl == <<"metrics">>   \* http://localhost:8000/metrics, requested with bare axios

\* routes of AppRoutes: the entry point, a route wrapped in ProtectedRoute,
\* and a path only the wildcard route matches
EntryPath == "/"
ProtectedPath == "/dashboard"
UnknownPath == "/nowhere"
Paths == {EntryPath, ProtectedPath, UnknownPath}

\* location.state: absent, or the object ProtectedRoute passes to Navigate
NoState == {}
Marker == {"requiresLogin", "fromProtectedRoute"}

\* the widget's first message
Greeting == [role |-> "assistant", content |-> "greeting"]

\* what can be in the widget's textarea: nothing, white space, text
InputValues == {"", " ", "hi", " hi "}

\* how a POST /chat can end: a body with a reply, a 200 without one, the
\* 10 s timeout, a 5xx, a 404, no connection, another failure while the
\* browser is offline, any other failure
ChatOutcomes == {"reply", "invalid", "ECONNABORTED", "5xx", "404",
                 "ERR_NETWORK", "offline", "other"}

\* error.response.data.detail values
Details == {"Email not found", "Incorrect password", "Other"}
QuietDetails == {"Email not found", "Incorrect password"}

VARIABLES
  token,            \* localStorage 'token'
  storedUser,       \* localStorage 'user'
  user,             \* useState(null)
  loading,          \* useState(true)
  isAuthenticated,  \* useState(false)
  phase,            \* "boot": mounted, effect not yet run; "run" afterwards
  inflight,         \* requests sent and not yet answered
  nextId,           \* number of requests issued in this page lifetime
  nextTok,          \* number of tokens issued by the server
  href,             \* TRUE once window.location.href = '/' has been assigned
  latestAttempt,    \* id of the latest-started /auth/me or /auth/login request
  revoked,          \* tokens removed from the store by logout
  last,             \* what the last step did (observable effects)
  path,             \* location.pathname of the router
  locationState,    \* location.state of the router
  historyState,     \* window.history.state of the current entry (survives a refresh)
  showLoginPrompt,  \* Home: useState(false)
  messages,         \* GoalieChatWidget: useState([greeting])
  inputValue,       \* GoalieChatWidget: useState('')
  isLoading,        \* GoalieChatWidget: useState(false)
  chatPending       \* goalieClient.post('/chat') calls not yet settled

sessionVars == <<token, storedUser, user, loading, isAuthenticated, phase,
                 inflight, nextId, nextTok, href, latestAttempt, revoked>>
navVars == <<path, locationState, historyState, showLoginPrompt>>
chatVars == <<messages, inputValue, isLoading, chatPending>>

vars == <<token, storedUser, user, loading, isAuthenticated, phase, inflight,
          nextId, nextTok, href, latestAttempt, revoked, last,
          path, locationState, historyState, showLoginPrompt,
          messages, inputValue, isLoading, chatPending>>

\* ------------------------------------------------------------- helpers
\* String.prototype.includes on the request path
includes(url, pat) ==
  \E i \in 0..(Len(url) - Len(pat)) : SubSeq(url, i + 1, i + Len(pat)) = pat

getToken == token

\* variant of the request interceptor that keeps the token it was last issued
RequestInterceptor_Cached == nextTok

\* request interceptor: Authorization header attached when a token exists
RequestInterceptor == IF getToken # NoToken THEN getToken ELSE NoToken

\* variants of the interceptor's test
SessionExpired_NoLoginExempt(url, st) ==
  /\ st = UNAUTHORIZED
  /\ ~includes(url, CareerUrl)

SessionExpired_AuthExempt(url, st) ==
  /\ st = UNAUTHORIZED
  /\ ~includes(url, <<"auth">>)
  /\ ~includes(url, CareerUrl)

SessionExpired_NoCareerExempt(url, st) ==
  /\ st = UNAUTHORIZED
  /\ ~includes(url, LoginUrl)

SessionExpired_AnyError(url, st) ==
  /\ st >= UNAUTHORIZED
  /\ ~includes(url, LoginUrl)
  /\ ~includes(url, CareerUrl)

\* response interceptor, error branch: is the clear-and-redirect run?
SessionExpired(url, st) ==
  /\ st = UNAUTHORIZED
  /\ ~includes(url, LoginUrl)
  /\ ~includes(url, CareerUrl)

ServerErrorToast(st) == st # UNAUTHORIZED /\ st >= SERVER_ERROR

InterceptorToasts(url, st) ==
  (IF SessionExpired(url, st) THEN {"expired"} ELSE {})
    \cup (IF ServerErrorToast(st) THEN {"server"} ELSE {})

\* record of one step.  data: the user record in the response body;
\* detail: error.response.data.detail; justLoggedOut: logout was the last
\* call into the hook and only page loads and startups have followed it
Event(op, r, st, redirected, rejected, toasts, data, detail) ==
  [op |-> op, url |-> r.url, st |-> st, overlap |-> r.overlap,
   stale |-> (r.caller \in {"initAuth", "login"} /\ r.id < latestAttempt),
   redirected |-> redirected, rejected |-> rejected, toasts |-> toasts,
   data |-> data, detail |-> detail,
   justLoggedOut |-> (op = "logout"
                        \/ (op \in {"load", "initAuth"} /\ last.justLoggedOut))]

Step(op, r, st, redirected, rejected, toasts) ==
  Event(op, r, st, redirected, rejected, toasts, NoUser, "none")

NoReq == [id |-> 0, url |-> <<>>, caller |-> "none", auth |-> NoToken,
          overlap |-> FALSE]

NewReq(url, caller) ==
  [id |-> nextId + 1, url |-> url, caller |-> caller,
   auth |-> RequestInterceptor, overlap |-> FALSE]

\* the other requests, marked when a clear-and-redirect fires meanwhile
Others(r, fired) ==
  {[q EXCEPT !.overlap = q.overlap \/ fired] : q \in inflight \ {r}}

\* ------------------------------------------------------------- Init
Init ==
  /\ token = NoToken
  /\ storedUser = NoUser
  /\ user = NoUser
  /\ loading = TRUE
  /\ isAuthenticated = FALSE
  /\ phase = "boot"
  /\ inflight = {}
  /\ nextId = 0
  /\ nextTok = 0
  /\ href = FALSE
  /\ latestAttempt = 0
  /\ revoked = {}
  /\ last = [op |-> "load", url |-> <<>>, st |-> OK, overlap |-> FALSE,
             stale |-> FALSE, redirected |-> FALSE, rejected |-> FALSE,
             toasts |-> {}, data |-> NoUser, detail |-> "none",
             justLoggedOut |-> FALSE]
  /\ path = EntryPath
  /\ locationState = NoState
  /\ historyState = NoState
  /\ showLoginPrompt = FALSE
  /\ messages = <<Greeting>>
  /\ inputValue = ""
  /\ isLoading = FALSE
  /\ chatPending = 0

\* ------------------------------------------------------------- routing
\* ProtectedRoute: spinner while loading, else children or <Navigate to="/">
Guard(l, a) ==
  IF l THEN "placeholder" ELSE IF a THEN "children" ELSE "redirect"

\* what ProtectedRoute returns for the provider's current state
RouteGuard == Guard(loading, isAuthenticated)

\* variant of Home's effect that opens the prompt on every arrival
HomeEffectPrompt_Always(st, cur) == TRUE

\* Home's effect, first part: setShowLoginPrompt(true) when location.state
\* has both requiresLogin and fromProtectedRoute
HomeEffectPrompt(st, cur) ==
  IF "requiresLogin" \in st /\ "fromProtectedRoute" \in st THEN TRUE ELSE cur

\* variant of Home's effect without the replaceState call
HomeEffectHistory_Keep(st, hist) == hist

\* Home's effect, second part: window.history.replaceState({}, title) when
\* location.state has requiresLogin
HomeEffectHistory(st, hist) ==
  IF "requiresLogin" \in st THEN NoState ELSE hist

\* Home mounted (or its location.state changed): the effect runs
HomeEffect ==
  /\ showLoginPrompt' = HomeEffectPrompt(locationState', showLoginPrompt)
  /\ historyState' = HomeEffectHistory(locationState', historyState)

\* the render that follows a step: on a protected route ProtectedRoute may
\* return <Navigate to="/" state={marker} replace />, which mounts Home
\* (showLoginPrompt starts false) and runs its effect
Render(l, a) ==
  IF path = ProtectedPath /\ Guard(l, a) = "redirect"
    THEN /\ path' = EntryPath
         /\ locationState' = Marker
         /\ showLoginPrompt' = HomeEffectPrompt(Marker, FALSE)
         /\ historyState' = HomeEffectHistory(Marker, Marker)
    ELSE UNCHANGED navVars

\* ------------------------------------------------------------- actions
\* variant of initAuth with setLoading(false) inside the if (token) block
InitAuthLoading_InsideIf == loading

\* initAuth: loading stays set while the request is awaited; with no token
\* the function falls through to setLoading(false)
InitAuthLoading == IF getToken # NoToken THEN loading ELSE FALSE

\* useEffect(() => { initAuth() }, []): synchronous part up to the await
initAuth ==
  /\ phase = "boot"
  /\ phase' = "run"
  /\ IF getToken # NoToken
       THEN /\ inflight' = inflight \cup {NewReq(MeUrl, "initAuth")}
            /\ nextId' = nextId + 1
            /\ latestAttempt' = nextId + 1
       ELSE UNCHANGED <<inflight, nextId, latestAttempt>>
  /\ loading' = InitAuthLoading
  /\ last' = Step("initAuth", NoReq, OK, FALSE, FALSE, {})
  /\ UNCHANGED <<token, storedUser, user, isAuthenticated, nextTok, href, revoked>>
  /\ IF path = EntryPath
       THEN \* Home's effect runs in the same commit as the provider's
            /\ UNCHANGED <<path, locationState>>
            /\ HomeEffect
       ELSE Render(loading', isAuthenticated')
  /\ UNCHANGED chatVars

\* const login = async (credentials) => { setLoading(true); await authAPI.login(...)
login ==
  /\ phase = "run"
  /\ nextId < MaxReq
  /\ loading' = TRUE
  /\ inflight' = inflight \cup {NewReq(LoginUrl, "login")}
  /\ nextId' = nextId + 1
  /\ latestAttempt' = nextId + 1
  /\ last' = Step("login", NoReq, OK, FALSE, FALSE, {})
  /\ UNCHANGED <<token, storedUser, user, isAuthenticated, phase, nextTok,
                 href, revoked>>
  /\ Render(loading', isAuthenticated')
  /\ UNCHANGED chatVars

\* const register = async (userData) => { setLoading(true); await authAPI.register(...)
register ==
  /\ phase = "run"
  /\ nextId < MaxReq
  /\ loading' = TRUE
  /\ inflight' = inflight \cup {NewReq(RegisterUrl, "register")}
  /\ nextId' = nextId + 1
  /\ last' = Step("register", NoReq, OK, FALSE, FALSE, {})
  /\ UNCHANGED <<token, storedUser, user, isAuthenticated, phase, nextTok,
                 href, latestAttempt, revoked>>
  /\ Render(loading', isAuthenticated')
  /\ UNCHANGED chatVars

\* a view calls agentAPI.* : api.get / api.post on a non-auth endpoint
request(url) ==
  /\ phase = "run"
  /\ nextId < MaxReq
  /\ inflight' = inflight \cup {NewReq(url, "component")}
  /\ nextId' = nextId + 1
  /\ last' = Step("request", NoReq, OK, FALSE, FALSE, {})
  /\ UNCHANGED <<token, storedUser, user, loading, isAuthenticated, phase,
                 nextTok, href, latestAttempt, revoked>>
  /\ UNCHANGED <<navVars, chatVars>>

\* systemAPI.getMetrics: axios.get on the absolute URL, not api.get, so neither
\* interceptor of the api instance runs for it
getMetrics ==
  /\ phase = "run"
  /\ nextId < MaxReq
  /\ inflight' = inflight \cup {[NewReq(MetricsUrl, "metrics") EXCEPT !.auth = NoToken]}
  /\ nextId' = nextId + 1
  /\ last' = Step("getMetrics", NoReq, OK, FALSE, FALSE, {})
  /\ UNCHANGED <<token, storedUser, user, loading, isAuthenticated, phase,
                 nextTok, href, latestAttempt, revoked>>
  /\ UNCHANGED <<navVars, chatVars>>

\* variant of authAPI.logout that forgets removeToken()
LogoutStore_KeepToken == [token |-> token, storedUser |-> NoUser]

\* authAPI.logout: removeToken(); localStorage.removeItem('user')
LogoutStore == [token |-> NoToken, storedUser |-> NoUser]

\* const logout = () => { authAPI.logout(); setUser(null); setIsAuthenticated(false); toast }
logout ==
  /\ phase = "run"
  /\ token' = LogoutStore.token
  /\ storedUser' = LogoutStore.storedUser
  /\ user' = NoUser
  /\ isAuthenticated' = FALSE
  /\ revoked' = revoked \cup ({token} \ {NoToken})
  /\ last' = Step("logout", NoReq, OK, FALSE, FALSE, {"loggedOut"})
  /\ UNCHANGED <<loading, phase, inflight, nextId, nextTok, href,
                 latestAttempt>>
  /\ Render(loading', isAuthenticated')
  /\ UNCHANGED chatVars

\* page (re)load: a browser refresh, or the navigation started by
\* window.location.href = '/'.  React state is re-created, outstanding
\* requests are abandoned, localStorage survives.
reload ==
  /\ user' = NoUser
  /\ loading' = TRUE
  /\ isAuthenticated' = FALSE
  /\ phase' = "boot"
  /\ inflight' = {}
  /\ nextId' = 0
  /\ href' = FALSE
  /\ latestAttempt' = 0
  /\ last' = Step("load", NoReq, OK, FALSE, FALSE, {})
  /\ UNCHANGED <<token, storedUser, nextTok, revoked>>
  /\ IF href
       THEN \* navigation to '/': a new history entry
            /\ path' = EntryPath
            /\ locationState' = NoState
            /\ historyState' = NoState
       ELSE \* refresh: the router reads location.state back from history.state
            /\ locationState' = historyState
            /\ UNCHANGED <<path, historyState>>
  /\ showLoginPrompt' = FALSE
  /\ messages' = <<Greeting>>
  /\ inputValue' = ""
  /\ isLoading' = FALSE
  /\ chatPending' = 0

\* getCurrentUser's catch (removeToken, removeItem('user'), for any error),
\* followed by authAPI.logout() in initAuth's catch
MeFailureStore(st) == [token |-> NoToken, storedUser |-> NoUser]

\* setUser(userData): the record returned by GET /auth/me
MeUser(u) == u

\* response to GET /auth/me: interceptor, getCurrentUser, rest of initAuth
meResponse(r, st, u) ==
  /\ r \in inflight
  /\ r.caller = "initAuth"
  /\ inflight' = Others(r, SessionExpired(r.url, st))
  /\ IF st = OK
       THEN /\ user' = MeUser(u)
            /\ isAuthenticated' = TRUE
            /\ UNCHANGED <<token, storedUser, href>>
       ELSE \* interceptor, then getCurrentUser's catch, then initAuth's catch
            /\ token' = MeFailureStore(st).token
            /\ storedUser' = MeFailureStore(st).storedUser
            /\ href' = (href \/ SessionExpired(r.url, st))
            /\ UNCHANGED <<user, isAuthenticated>>
  /\ loading' = FALSE
  /\ last' = Event("meResponse", r, st, SessionExpired(r.url, st),
                   st # OK, IF st = OK THEN {} ELSE InterceptorToasts(r.url, st),
                   u, "none")
  /\ UNCHANGED <<phase, nextId, nextTok, latestAttempt, revoked>>
  /\ Render(loading', isAuthenticated')
  /\ UNCHANGED chatVars

\* variant of login's catch that always shows the toast
LoginErrorToast_Always(detail) == {"loginError"}

\* login's catch: errorMessage = detail || 'Login failed'; toast unless quiet
LoginErrorToast(detail) ==
  IF detail \in QuietDetails THEN {} ELSE {"loginError"}

\* response to POST /auth/login: interceptor, authAPI.login, rest of login
loginResponse(r, st, tok, u, detail) ==
  /\ r \in inflight
  /\ r.caller = "login"
  /\ inflight' = Others(r, SessionExpired(r.url, st))
  /\ IF st = OK
       THEN /\ tok # NoToken => tok = nextTok + 1
            /\ nextTok' = IF tok # NoToken THEN tok ELSE nextTok
            /\ token' = IF tok # NoToken THEN tok ELSE token
            /\ storedUser' = IF tok # NoToken THEN u ELSE storedUser
            /\ user' = u
            /\ isAuthenticated' = TRUE
            /\ href' = href
            /\ last' = Event("loginResponse", r, st, FALSE, FALSE,
                             {"loginOk"}, u, "none")
       ELSE /\ token' = IF SessionExpired(r.url, st) THEN NoToken ELSE token
            /\ href' = (href \/ SessionExpired(r.url, st))
            /\ last' = Event("loginResponse", r, st, SessionExpired(r.url, st),
                             TRUE,
                             InterceptorToasts(r.url, st) \cup LoginErrorToast(detail),
                             NoUser, detail)
            /\ UNCHANGED <<storedUser, user, isAuthenticated, nextTok>>
  /\ loading' = FALSE
  /\ UNCHANGED <<phase, nextId, latestAttempt, revoked>>
  /\ Render(loading', isAuthenticated')
  /\ UNCHANGED chatVars

\* response to POST /auth/register: interceptor, authAPI.register, rest of register
registerResponse(r, st) ==
  /\ r \in inflight
  /\ r.caller = "register"
  /\ inflight' = Others(r, st # OK /\ SessionExpired(r.url, st))
  /\ token' = IF st # OK /\ SessionExpired(r.url, st) THEN NoToken ELSE token
  /\ href' = (href \/ (st # OK /\ SessionExpired(r.url, st)))
  /\ loading' = FALSE
  /\ last' = Step("registerResponse", r, st, st # OK /\ SessionExpired(r.url, st), st # OK,
                  IF st = OK THEN {"registerOk"}
                  ELSE InterceptorToasts(r.url, st) \cup {"registerError"})
  /\ UNCHANGED <<storedUser, user, isAuthenticated, phase, nextId, nextTok,
                 latestAttempt, revoked>>
  /\ Render(loading', isAuthenticated')
  /\ UNCHANGED chatVars

\* response to a view's request: interceptor, then the view's own handler
componentResponse(r, st) ==
  /\ r \in inflight
  /\ r.caller = "component"
  /\ inflight' = Others(r, st # OK /\ SessionExpired(r.url, st))
  /\ token' = IF st # OK /\ SessionExpired(r.url, st) THEN NoToken ELSE token
  /\ href' = (href \/ (st # OK /\ SessionExpired(r.url, st)))
  /\ last' = Step("componentResponse", r, st, st # OK /\ SessionExpired(r.url, st), st # OK,
                  IF st = OK THEN {} ELSE InterceptorToasts(r.url, st))
  /\ UNCHANGED <<storedUser, user, loading, isAuthenticated, phase, nextId,
                 nextTok, latestAttempt, revoked>>
  /\ UNCHANGED <<navVars, chatVars>>

\* response to systemAPI.getMetrics: no interceptor, the promise settles
metricsResponse(r, st) ==
  /\ r \in inflight
  /\ r.caller = "metrics"
  /\ inflight' = inflight \ {r}
  /\ last' = Step("metricsResponse", r, st, FALSE, st # OK, {})
  /\ UNCHANGED <<token, storedUser, user, loading, isAuthenticated, phase,
                 nextId, nextTok, href, latestAttempt, revoked>>
  /\ UNCHANGED <<navVars, chatVars>>

\* navigation inside the page: a <Link>, navigate(), or, for a path no route
\* matches, the wildcard route's <Navigate to="/" replace />
visit(p) ==
  /\ phase = "run"
  /\ LET dest == IF p = UnknownPath THEN EntryPath ELSE p
     IN IF dest = ProtectedPath /\ RouteGuard = "redirect"
          THEN /\ path' = EntryPath
               /\ locationState' = Marker
               /\ showLoginPrompt' = HomeEffectPrompt(Marker, FALSE)
               /\ historyState' = HomeEffectHistory(Marker, Marker)
          ELSE /\ path' = dest
               /\ locationState' = NoState
               /\ IF dest = EntryPath /\ (path # EntryPath \/ locationState # NoState)
                    THEN /\ showLoginPrompt' =
                              HomeEffectPrompt(NoState, path = EntryPath /\ showLoginPrompt)
                         /\ historyState' = HomeEffectHistory(NoState, NoState)
                    ELSE /\ showLoginPrompt' = (dest = EntryPath /\ showLoginPrompt)
                         /\ historyState' = NoState
  /\ last' = Step("visit", [NoReq EXCEPT !.url = <<p>>], OK, FALSE, FALSE, {})
  /\ UNCHANGED <<sessionVars, chatVars>>

\* the page is loaded at a URL typed or followed from outside: React state is
\* created anew on a fresh history entry
open(p) ==
  /\ user' = NoUser
  /\ loading' = TRUE
  /\ isAuthenticated' = FALSE
  /\ phase' = "boot"
  /\ inflight' = {}
  /\ nextId' = 0
  /\ href' = FALSE
  /\ latestAttempt' = 0
  /\ last' = Step("open", [NoReq EXCEPT !.url = <<p>>], OK, FALSE, FALSE, {})
  /\ UNCHANGED <<token, storedUser, nextTok, revoked>>
  /\ path' = IF p = UnknownPath THEN EntryPath ELSE p
  /\ locationState' = NoState
  /\ historyState' = NoState
  /\ showLoginPrompt' = FALSE
  /\ messages' = <<Greeting>>
  /\ inputValue' = ""
  /\ isLoading' = FALSE
  /\ chatPending' = 0

\* Home: handleFeatureClick / handleDashboardClick while not authenticated
featureClick ==
  /\ phase = "run"
  /\ path = EntryPath
  /\ ~isAuthenticated
  /\ showLoginPrompt' = TRUE
  /\ last' = Step("featureClick", NoReq, OK, FALSE, FALSE, {})
  /\ UNCHANGED <<sessionVars, path, locationState, historyState, chatVars>>

\* Home: the prompt's close buttons
closePrompt ==
  /\ phase = "run"
  /\ path = EntryPath
  /\ showLoginPrompt
  /\ showLoginPrompt' = FALSE
  /\ last' = Step("closePrompt", NoReq, OK, FALSE, FALSE, {})
  /\ UNCHANGED <<sessionVars, path, locationState, historyState, chatVars>>

\* String.prototype.trim on the textarea's value
Trim(v) == IF v = " " THEN "" ELSE IF v = " hi " THEN "hi" ELSE v

\* variant of handleSend's test without trim()
HandleSendGuard_NoTrim(v, busy) == v # "" /\ ~busy

\* handleSend: if (!inputValue.trim() || isLoading) return
HandleSendGuard(v, busy) == Trim(v) # "" /\ ~busy

\* the textarea's onChange; the textarea is disabled while isLoading
setInputValue(v) ==
  /\ ~isLoading
  /\ inputValue' = v
  /\ last' = Step("setInputValue", NoReq, OK, FALSE, FALSE, {})
  /\ UNCHANGED <<sessionVars, navVars, messages, isLoading, chatPending>>

\* handleSend up to its await (send button or Enter key)
handleSend ==
  /\ Len(messages) < 2 * MaxChat
  /\ IF HandleSendGuard(inputValue, isLoading)
       THEN /\ messages' = Append(messages, [role |-> "user",
                                              content |-> Trim(inputValue)])
            /\ inputValue' = ""
            /\ isLoading' = TRUE
            /\ chatPending' = chatPending + 1
       ELSE UNCHANGED chatVars
  /\ last' = Step("handleSend", NoReq, OK, FALSE, FALSE, {})
  /\ UNCHANGED <<sessionVars, navVars>>

\* variant of chatWithGoalie that rethrows server errors
ChatWithGoalie_Rethrow(o) ==
  [rejected |-> (o = "5xx"), content |-> "none"]

\* chatWithGoalie: the reply, or the message its catch block picks
ChatWithGoalie(o) ==
  [rejected |-> FALSE,
   content |-> CASE o = "reply" -> "reply"
                 [] o = "ECONNABORTED" -> "taking longer"
                 [] o = "5xx" -> "technical difficulties"
                 [] o = "404" -> "not available"
                 [] o = "ERR_NETWORK" -> "can't connect"
                 [] o = "offline" -> "offline"
                 [] OTHER -> "couldn't reach"]

\* the rest of handleSend once chatWithGoalie settles: the assistant message
\* (the reply, or the fixed text of handleSend's own catch), then finally
chatResponse(o) ==
  /\ chatPending > 0
  /\ chatPending' = chatPending - 1
  /\ messages' = Append(messages,
                        [role |-> "assistant",
                         content |-> IF ChatWithGoalie(o).rejected
                                       THEN "trouble connecting"
                                       ELSE ChatWithGoalie(o).content])
  /\ isLoading' = FALSE
  /\ last' = Event("chatResponse", [NoReq EXCEPT !.url = <<"chat">>], OK, FALSE,
                   ChatWithGoalie(o).rejected, {}, NoUser, o)
  /\ UNCHANGED <<sessionVars, navVars, inputValue>>

\* what the server can put in a response of each status
MeUsers(st) == IF st = OK THEN Users ELSE {NoUser}
\* (POST /auth/login -> { access_token, user } on success, a fresh token each time)
LoginTokens(st) ==
  IF st = OK THEN (IF nextTok < MaxTokens THEN {nextTok + 1} ELSE {})
             ELSE {NoToken}
LoginDetails(st) ==
  IF st = OK \/ st = NO_RESPONSE THEN {"none"} ELSE Details \cup {"none"}

\* arrival of one response, for each kind of caller
OnRequest == \E url \in ComponentUrls : request(url)

OnComponentResponse ==
  \E r \in inflight, st \in Statuses : componentResponse(r, st)

OnMeResponse ==
  \E r \in inflight, st \in Statuses :
     \E u \in MeUsers(st) : meResponse(r, st, u)

OnLoginResponse ==
  \E r \in inflight, st \in Statuses :
     \E tok \in LoginTokens(st), u \in MeUsers(st), detail \in LoginDetails(st) :
        loginResponse(r, st, tok, u, detail)

OnRegisterResponse ==
  \E r \in inflight, st \in Statuses : registerResponse(r, st)

OnMetricsResponse ==
  \E r \in inflight, st \in Statuses : metricsResponse(r, st)

Next ==
  \/ initAuth
  \/ OnRequest
  \/ login
  \/ logout
  \/ reload
  \/ OnComponentResponse
  \/ OnMeResponse
  \/ OnLoginResponse
  \/ register
  \/ OnRegisterResponse

Spec == Init /\ [][Next]_vars

\* the same client against a server that may answer POST /auth/login with a
\* 200 whose body has no access_token (the case authAPI.login tests for)
OnLoginResponseNoToken ==
  \E r \in inflight, u \in Users : loginResponse(r, OK, NoToken, u, "none")

NextAnyBody == Next \/ OnLoginResponseNoToken

SpecAnyBody == Init /\ [][NextAnyBody]_vars

\* the session operations together with one view endpoint and
\* systemAPI.getMetrics, the one call of the API module made with bare axios
OnProgressRequest == request(RoadmapProgressUrl)

NextSend ==
  \/ initAuth
  \/ login
  \/ logout
  \/ reload
  \/ OnProgressRequest
  \/ getMetrics
  \/ OnMeResponse
  \/ OnLoginResponse
  \/ OnComponentResponse
  \/ OnMetricsResponse

SpecSend == Init /\ [][NextSend]_vars

\* the session operations together with the router: navigation, page loads
\* at a given URL, and Home's login prompt
OnVisit == \E p \in Paths : visit(p)

OnOpen == \E p \in Paths : open(p)

NextNav ==
  \/ initAuth
  \/ OnVisit
  \/ OnOpen
  \/ login
  \/ logout
  \/ reload
  \/ featureClick
  \/ closePrompt
  \/ OnProgressRequest
  \/ OnMeResponse
  \/ OnLoginResponse
  \/ OnComponentResponse

SpecNav == Init /\ [][NextNav]_vars

\* the step ends with ProtectedRoute returning <Navigate to="/" ...>: the
\* router was on, or was sent to, the protected route and the provider's new
\* state is neither loading nor authenticated
GuardRedirected ==
  /\ \/ path = ProtectedPath
     \/ (last'.op = "visit" /\ last'.url = <<ProtectedPath>>)
  /\ Guard(loading', isAuthenticated') = "redirect"

\* the chat widget on its own, every POST /chat settling (at the latest by
\* the client's timeout)
OnSetInputValue == \E v \in InputValues : setInputValue(v)

OnChatResponse == \E o \in ChatOutcomes : chatResponse(o)

NextChat ==
  \/ OnSetInputValue
  \/ handleSend
  \/ OnChatResponse

SpecChat ==
  /\ Init
  /\ [][NextChat]_vars
  /\ WF_vars(OnChatResponse)

\* a startup validation, login or register request is outstanding
AuthPending ==
  \E q \in inflight : q.caller \in {"initAuth", "login", "register"}

\* a page load that abandons no session request
reloadIdle == ~AuthPending /\ reload

\* the session operations when every session request is answered: the
\* effect runs once the provider is mounted and each outstanding request
\* gets its response (or its failure)
NextLive ==
  \/ initAuth
  \/ login
  \/ register
  \/ logout
  \/ reloadIdle
  \/ OnMeResponse
  \/ OnLoginResponse
  \/ OnRegisterResponse

SpecLive ==
  /\ Init
  /\ [][NextLive]_vars
  /\ WF_vars(initAuth)
  /\ WF_vars(OnMeResponse)
  /\ WF_vars(OnLoginResponse)
  /\ WF_vars(OnRegisterResponse)


\* the startup validation request is outstanding
MePending == \E q \in inflight : q.caller = "initAuth"

\* AuthState.status read off the provider: nothing decided before the effect
\* has run, Validating while GET /auth/me is outstanding, then isAuthenticated
status ==
  IF phase = "boot" THEN "Uninitialized"
  ELSE IF MePending THEN "Validating"
  ELSE IF isAuthenticated THEN "Authenticated" ELSE "Unauthenticated"

\* ------------------------------------------------------------- properties
Responses == {"meResponse", "loginResponse", "registerResponse",
              "componentResponse"}
SessionResponses == {"meResponse", "loginResponse"}

\* C1: whenever the session is settled (effect run, loading flag cleared),
\* isAuthenticated holds exactly when localStorage holds a token.
C1_AuthIffToken ==
  (phase = "run" /\ ~loading) => (isAuthenticated <=> token # NoToken)

\* C2: a 401 on a non-login endpoint, handled for a request that was already
\* in flight when an earlier clear-and-redirect fired, neither redirects
\* again nor shows a second 'session expired' notification.
C2_SingleExpiry ==
  (/\ last.op \in Responses
   /\ last.st = UNAUTHORIZED
   /\ ~includes(last.url, LoginUrl)
   /\ last.overlap)
    => (~last.redirected /\ "expired" \notin last.toasts)

\* C3: a login started while GET /auth/me was outstanding has just returned
\* successfully; when the validation response then arrives, status, user and
\* store are still the ones the login produced.
C3_LoginOutcomeWins ==
  [][(/\ last.op = "loginResponse"
      /\ last.st = OK
      /\ last'.op = "meResponse"
      /\ last'.stale)
       => (/\ isAuthenticated'
           /\ user' = user
           /\ token' = token
           /\ storedUser' = storedUser)]_vars

\* C4: the response of a session-establishing attempt that is no longer the
\* latest-started one changes neither status, user nor the store.
C4_StaleAttemptDiscarded ==
  [][(last'.op \in SessionResponses /\ last'.stale)
       => UNCHANGED <<token, storedUser, user, isAuthenticated>>]_vars

\* C5: a 401 on POST /auth/login is rejected to the caller; store, status,
\* user and location are untouched and the session-expired branch is not run.
C5_LoginRejectedIsLocal ==
  [][(last'.op = "loginResponse" /\ last'.st = UNAUTHORIZED)
       => (/\ last'.rejected
           /\ ~last'.redirected
           /\ "expired" \notin last'.toasts
           /\ UNCHANGED <<token, storedUser, user, isAuthenticated, href>>)]_vars

C5_Witness ==
  /\ last.op = "loginResponse"
  /\ last.st = UNAUTHORIZED
  /\ last.rejected
  /\ token = NoToken
  /\ ~isAuthenticated
  /\ ~href

\* C6 (as stated): after a 401 on any endpoint other than the login endpoint
\* the token is gone and the redirect has been issued.
C6_EveryNonLogin401Expires ==
  (/\ last.op \in Responses
   /\ last.st = UNAUTHORIZED
   /\ ~includes(last.url, LoginUrl))
    => (token = NoToken /\ href /\ last.redirected)

\* C6 (amended): after a 401 on a request whose URL contains neither
\* '/auth/login' nor '/agents/career' the token is gone and the redirect has
\* been issued.
C6_NonExempt401Expires ==
  (/\ last.op \in Responses
   /\ last.st = UNAUTHORIZED
   /\ ~includes(last.url, LoginUrl)
   /\ ~includes(last.url, CareerUrl))
    => (token = NoToken /\ href /\ last.redirected)

C6_Witness ==
  /\ last.op = "componentResponse"
  /\ last.st = UNAUTHORIZED
  /\ last.url = RoadmapProgressUrl
  /\ isAuthenticated
  /\ token = NoToken
  /\ href

\* C7: right after a step that ran the session-expired handling, status is
\* not Authenticated.
C7_ExpiryUnauthenticates ==
  last.redirected => ~isAuthenticated

\* C8: the 'token' and 'user' keys are both present or both absent.
C8_TokenAndUserTogether ==
  (token = NoToken) <=> (storedUser = NoUser)

\* C9 (as stated): a 5xx or a connectivity failure on any request is rejected
\* to the caller and leaves token, cached user and status as they were.
C9_ServerErrorFrame ==
  [][(last'.op \in Responses /\ last'.st \in {SERVER_ERROR, NO_RESPONSE})
       => (/\ last'.rejected
           /\ UNCHANGED <<token, storedUser, isAuthenticated>>)]_vars

\* C9 (amended): a 5xx or a connectivity failure on any request other than
\* the startup GET /auth/me is rejected to the caller and leaves token, cached
\* user and status as they were; on GET /auth/me it removes both keys and
\* leaves status as it was.
C9_ServerErrorFrameExceptMe ==
  [][(last'.op \in Responses /\ last'.st \in {SERVER_ERROR, NO_RESPONSE})
       => (/\ last'.rejected
           /\ isAuthenticated' = isAuthenticated
           /\ IF last'.url = MeUrl
                THEN token' = NoToken /\ storedUser' = NoUser
                ELSE UNCHANGED <<token, storedUser>>)]_vars

C9_Witness ==
  /\ last.op = "componentResponse"
  /\ last.st = SERVER_ERROR
  /\ last.rejected
  /\ token # NoToken
  /\ storedUser # NoUser
  /\ isAuthenticated

\* C10: logout leaves the store empty and status Unauthenticated in the step
\* that runs it, and a request sent afterwards never carries a token that a
\* logout removed.
C10_LogoutClearsAndNoStaleBearer ==
  [][/\ last'.op = "logout"
          => (token' = NoToken /\ storedUser' = NoUser /\ ~isAuthenticated'
              /\ user' = NoUser)
     /\ nextId' = nextId + 1
          => \A q \in inflight' : q.id = nextId' => q.auth \notin revoked']_vars

C10_Witness ==
  /\ last.op = "logout"
  /\ revoked # {}
  /\ \E q \in inflight : q.caller \in {"initAuth", "login"} /\ q.auth \in revoked
  /\ token = NoToken
  /\ ~isAuthenticated

\* C11: when startup runs after a logout that was followed only by page
\* loads, it finds no token, sends no request and leaves status
\* Unauthenticated with the loading flag cleared.
C11_LogoutReloadStaysOut ==
  (last.op = "initAuth" /\ last.justLoggedOut)
    => (/\ token = NoToken
        /\ inflight = {}
        /\ nextId = 0
        /\ ~isAuthenticated
        /\ user = NoUser
        /\ ~loading)

C11_Witness ==
  /\ last.op = "initAuth"
  /\ last.justLoggedOut
  /\ revoked # {}
  /\ inflight = {}
  /\ ~isAuthenticated

\* C12: startup with a stored token shows the placeholder from the moment
\* the request is sent and for as long as it is outstanding, and a 200
\* leaves status Authenticated with the user record of the response.
C12_StartupSuccess ==
  [][/\ (last'.op = "initAuth" /\ token # NoToken)
          => (MePending' /\ RouteGuard' = "placeholder")
     /\ (MePending /\ MePending' /\ RouteGuard = "placeholder")
          => RouteGuard' = "placeholder"
     /\ (last'.op = "meResponse" /\ last'.st = OK)
          => (/\ isAuthenticated'
              /\ user' = last'.data
              /\ ~loading')]_vars

\* C13: a 401 on the startup GET /auth/me leaves both keys removed and
\* status Unauthenticated; a page load keeps
\* the store as it is, and startup with an empty store sends no validation
\* request.
C13_Startup401NoLoop ==
  [][/\ (last'.op = "meResponse" /\ last'.st = UNAUTHORIZED)
          => (/\ token' = NoToken
              /\ storedUser' = NoUser
              /\ ~isAuthenticated'
              /\ ~loading')
     /\ last'.op = "load" => (token' = token /\ storedUser' = storedUser)
     /\ (last'.op = "initAuth" /\ token = NoToken)
          => (~MePending' /\ nextId' = 0 /\ ~href')]_vars

\* C14: whatever the failure of the startup GET /auth/me (401, 5xx, no
\* response), both keys are removed and status is Unauthenticated.
C14_StartupAnyFailureClears ==
  (last.op = "meResponse" /\ last.st # OK)
    => (token = NoToken /\ storedUser = NoUser /\ ~isAuthenticated)

C16_PlaceholderWhileValidating ==
  MePending => RouteGuard = "placeholder"

\* C17: the Route Guard shows the placeholder while status is Uninitialized or
\* Validating, the protected content when it is Authenticated, and the
\* redirect otherwise.
C17_GuardFollowsStatus ==
  RouteGuard = CASE status \in {"Uninitialized", "Validating"} -> "placeholder"
                 [] status = "Authenticated" -> "children"
                 [] OTHER -> "redirect"

\* C18: after a 200 on POST /auth/login the store holds a token and the
\* returned user, status is Authenticated with that user, and the response
\* is returned (not rejected) to the caller.
C18_LoginSuccessStores ==
  (last.op = "loginResponse" /\ last.st = OK)
    => (/\ token # NoToken
        /\ storedUser = last.data
        /\ user = last.data
        /\ isAuthenticated
        /\ ~last.rejected)

\* C19: the return of a register call, whatever the status of the response,
\* leaves token, cached user and status as they were, and a failure is
\* rejected to the caller.
C19_RegisterFrame ==
  [][last'.op = "registerResponse"
       => (/\ UNCHANGED <<token, storedUser, isAuthenticated, user>>
           /\ last'.st # OK => last'.rejected)]_vars

C21_ExpiryNotDelivered ==
  (last.op \in Responses /\ last.redirected) => ~last.rejected

\* C24: the response to a request made by a view, which the session hook
\* never sees, leaves both keys of the store as they were.
C24_RequestLayerReadsOnly ==
  [][last'.op = "componentResponse"
       => UNCHANGED <<token, storedUser>>]_vars

\* C26: when the response of a GET /auth/me or POST /auth/login that was in
\* flight at logout is the next thing to happen after the logout, it leaves
\* isAuthenticated false and the store empty.
C26_NoResurrectionAfterLogout ==
  [][(last.op = "logout" /\ last'.op \in SessionResponses)
       => (~isAuthenticated' /\ token' = NoToken /\ storedUser' = NoUser)]_vars

\* C27: ProtectedRoute renders its children only while the store holds a
\* token.
C27_NoContentWithoutToken ==
  RouteGuard = "children" => token # NoToken

\* C29: a 401 on a URL containing '/auth/login' or '/agents/career' changes
\* neither the store nor isAuthenticated nor user, assigns no redirect and
\* shows no session-expired toast; the error is rejected to the caller.
C29_ExemptUnauthorizedIsNoOp ==
  [][(/\ last'.op \in Responses
      /\ last'.st = UNAUTHORIZED
      /\ (includes(last'.url, LoginUrl) \/ includes(last'.url, CareerUrl)))
       => (/\ UNCHANGED <<token, storedUser, isAuthenticated, user, href>>
           /\ ~last'.redirected
           /\ "expired" \notin last'.toasts
           /\ last'.rejected)]_vars

C29_Witness ==
  /\ last.op = "componentResponse"
  /\ last.st = UNAUTHORIZED
  /\ includes(last.url, CareerUrl)
  /\ last.rejected
  /\ ~last.redirected
  /\ token # NoToken
  /\ isAuthenticated
  /\ ~href

\* C25 (as stated): every request issued by the API module carries the token
\* that is in the store when it is sent, and none when the store is empty.
C25_EveryRequestCarriesToken ==
  [][nextId' = nextId + 1
       => \A r \in inflight' : r.id = nextId' => r.auth = token']_vars

\* C25 (amended): every request issued through the api instance carries the
\* token that is in the store when it is sent, and none when the store is
\* empty; systemAPI.getMetrics carries none in either case.
C25_ApiRequestsCarryToken ==
  [][nextId' = nextId + 1
       => \A r \in inflight' :
            r.id = nextId'
              => r.auth = (IF r.caller = "metrics" THEN NoToken ELSE token')]_vars

C25_Witness ==
  /\ last.op = "request"
  /\ token # NoToken
  /\ revoked # {}
  /\ \E r \in inflight : r.id = nextId /\ r.caller = "component" /\ r.auth = token
  /\ \E m \in inflight : m.caller = "metrics" /\ m.auth = NoToken

\* C28: when every session request is answered, a set loading flag is
\* eventually cleared, and it is clear whenever the effect has run and no
\* startup validation, login or register request is outstanding.
C28_LoadingSettles ==
  /\ loading ~> ~loading
  /\ []((phase = "run" /\ ~AuthPending) => ~loading)

C28_Witness ==
  /\ phase = "run"
  /\ ~AuthPending
  /\ ~loading
  /\ nextId >= 2
  /\ last.op = "registerResponse"
  /\ RouteGuard # "placeholder"

\* C22: the router never rests on the protected route with ProtectedRoute
\* returning the redirect; the redirect lands on the entry point with the
\* marker in location.state, Home opens the prompt and clears the history
\* entry's state; a refresh of the entry point then finds no marker and the
\* startup that follows it leaves the prompt closed.
C22_MarkerConsumedOnce ==
  /\ [](path = ProtectedPath => RouteGuard # "redirect")
  /\ [][GuardRedirected
          => (/\ path' = EntryPath
              /\ locationState' = Marker
              /\ showLoginPrompt'
              /\ historyState' = NoState)]_vars
  /\ [][(last'.op = "load" /\ ~href /\ path = EntryPath)
          => (path' = EntryPath /\ locationState' = NoState /\ ~showLoginPrompt')]_vars
  /\ [][(last.op = "load" /\ last'.op = "initAuth" /\ path = EntryPath)
          => ~showLoginPrompt']_vars

C22_Witness ==
  /\ last.op = "visit"
  /\ last.url = <<ProtectedPath>>
  /\ path = EntryPath
  /\ locationState = Marker
  /\ historyState = NoState
  /\ showLoginPrompt
  /\ ~isAuthenticated

\* C23: the prompt goes from closed to open only on a click in Home or at the
\* end of a step in which ProtectedRoute redirected with the marker; a page
\* load (refresh, typed URL, or the load started by the interceptor's
\* redirect) leaves it closed.
C23_PromptOnlyAfterGuardRedirect ==
  /\ [][(showLoginPrompt' /\ ~showLoginPrompt)
          => \/ last'.op = "featureClick"
             \/ (GuardRedirected /\ locationState' = Marker)]_vars
  /\ [][last'.op \in {"load", "open"} => ~showLoginPrompt']_vars

C23_Witness ==
  /\ last.op = "initAuth"
  /\ token = NoToken
  /\ path = EntryPath
  /\ locationState = Marker
  /\ showLoginPrompt

\* C30: at most one POST /chat is outstanding, and isLoading is set exactly
\* then; handleSend changes nothing while busy or with a blank input;
\* chatWithGoalie never rejects; user and assistant messages alternate, the
\* last message being the user's exactly while a request is outstanding; and
\* every request is eventually followed by the assistant message with
\* isLoading cleared.
C30_ChatOneAtATime ==
  /\ [](chatPending <= 1 /\ (isLoading <=> chatPending = 1))
  /\ [][(last'.op = "handleSend" /\ (isLoading \/ Trim(inputValue) = ""))
          => UNCHANGED chatVars]_vars
  /\ [](last.op = "chatResponse" => ~last.rejected)
  /\ [](\A i \in 1..(Len(messages) - 1) :
           messages[i].role # messages[i + 1].role)
  /\ [](isLoading <=> messages[Len(messages)].role = "user")
  /\ (isLoading ~> ~isLoading)

C30_Witness ==
  /\ last.op = "chatResponse"
  /\ last.detail = "5xx"
  /\ Len(messages) = 5
  /\ messages[5].content = "technical difficulties"
  /\ messages[4].role = "user"
  /\ ~isLoading
  /\ chatPending = 0

====
